---- MODULE Spec2Model ----
(***************************************************************************)
(* Model of the voice agent (voice_agent.py) and of its diagnostic entry   *)
(* point (test_agent.py): the startup probe, the listen / recognise / chat *)
(* / present / confirm loop, the termination keywords and the interrupt.   *)
(*                                                                         *)
(* Text is a sequence of characters.  A Latin character is the one-letter  *)
(* string; a Cyrillic character is written "cy_x" (small) or "CY_X"        *)
(* (capital), x its transliteration.  Python values are records            *)
(* [t |-> type, v |-> payload].                                            *)
(***************************************************************************)
EXTENDS Integers, Sequences, FiniteSets, TLC

\* Number of loop iterations (listen calls) the model follows.
MaxCycles == 2

---------------------------------------------------------------------------
\* Characters and str.lower()

LatinUpper == <<"A","B","C","D","E","F","G","H","I","J","K","L","M",
                "N","O","P","Q","R","S","T","U","V","W","X","Y","Z">>
LatinLower == <<"a","b","c","d","e","f","g","h","i","j","k","l","m",
                "n","o","p","q","r","s","t","u","v","w","x","y","z">>
CyrUpper == <<"CY_V","CY_Y","CY_H","CY_O","CY_D","CY_S","CY_T","CY_P",
              "CY_N","CY_E","CY_A","CY_R","CY_I">>
CyrLower == <<"cy_v","cy_y","cy_h","cy_o","cy_d","cy_s","cy_t","cy_p",
              "cy_n","cy_e","cy_a","cy_r","cy_i">>

\* str.lower() on one character: a capital maps to its small letter,
\* every other character to itself.
LowerChar(c) ==
  IF \E i \in DOMAIN LatinUpper : LatinUpper[i] = c
    THEN LatinLower[CHOOSE i \in DOMAIN LatinUpper : LatinUpper[i] = c]
  ELSE IF \E i \in DOMAIN CyrUpper : CyrUpper[i] = c
    THEN CyrLower[CHOOSE i \in DOMAIN CyrUpper : CyrUpper[i] = c]
  ELSE c

\* Variant of Lower: the reply is compared as it is.
LowerOmitted(s) == s

\* result.lower()
Lower(s) == [i \in DOMAIN s |-> LowerChar(s[i])]

\* word in s   (Python substring test)
Contains(word, s) ==
  \E i \in 0..(Len(s) - Len(word)) : SubSeq(s, i + 1, i + Len(word)) = word

\* The literals of the keyword list of main.
KwVyhod == <<"cy_v","cy_y","cy_h","cy_o","cy_d">>
KwExit == <<"e","x","i","t">>
KwQuit == <<"q","u","i","t">>
KwStopCyr == <<"cy_s","cy_t","cy_o","cy_p">>
ExitWords == {KwVyhod, KwExit, KwQuit, KwStopCyr}

\* The default of .get("content", ...): "Net otveta" in Cyrillic.
NoAnswer == <<"CY_N","cy_e","cy_t"," ","cy_o","cy_t","cy_v","cy_e","cy_t","cy_a">>

---------------------------------------------------------------------------
\* Python values

None == [t |-> "None", v |-> <<>>]
Str(s) == [t |-> "str", v |-> s]
Num(digits) == [t |-> "int", v |-> digits]
List(items) == [t |-> "list", v |-> items]
Dict(f) == [t |-> "dict", v |-> f]
EmptyDict == Dict(<<>>)

\* Variant of Truthy: the test "is not None".
TruthyNotNone(x) == x.t # "None"

\* bool(x) as used by "if response:" and "result and ..."
Truthy(x) ==
  CASE x.t = "None" -> FALSE
    [] x.t = "str" -> x.v # <<>>
    [] x.t = "int" -> x.v # <<"0">>
    [] x.t = "list" -> x.v # <<>>
    [] x.t = "dict" -> DOMAIN x.v # {}

\* Only a dict has .get; on any other value x.get raises AttributeError.
HasGet(x) == x.t = "dict"

\* d.get(key, default)
DictGet(d, key, default) == IF key \in DOMAIN d.v THEN d.v[key] ELSE default

---------------------------------------------------------------------------
\* What the collaborators can hand to the program

\* The inverse of LowerChar, used only to spell replies in capitals.
UpperChar(c) ==
  IF \E i \in DOMAIN LatinLower : LatinLower[i] = c
    THEN LatinUpper[CHOOSE i \in DOMAIN LatinLower : LatinLower[i] = c]
  ELSE IF \E i \in DOMAIN CyrLower : CyrLower[i] = c
    THEN CyrUpper[CHOOSE i \in DOMAIN CyrLower : CyrLower[i] = c]
  ELSE c
Upper(s) == [i \in DOMAIN s |-> UpperChar(s[i])]
Capitalised(s) == [i \in DOMAIN s |-> IF i = 1 THEN UpperChar(s[i]) ELSE s[i]]

\* "stop" in Latin letters: the word the keyword list does not hold.
LatinStop == <<"s","t","o","p">>

\* The middles of the texts a chat reply is drawn from: every keyword in
\* small letters, in capitals and capitalised, Latin "stop", pieces of a
\* keyword, a keyword broken by a space, other text and the empty text.
ReplyCores ==
  UNION {{w, Upper(w), Capitalised(w)} : w \in ExitWords \cup {LatinStop}}
    \cup {<<"x","i","t">>, <<"e","x","i">>, <<"e","x"," ","i","t">>,
          <<"cy_v","y","cy_h","cy_o","cy_d">>, <<"4">>, <<>>}
ReplyPads == {<<>>, <<"a">>, <<"E">>}

\* The texts message.content is drawn from.
Replies == {pre \o w \o suf : pre \in ReplyPads, w \in ReplyCores, suf \in ReplyPads}

\* The texts recognize_google returns: the exit word and other commands.
Utterances == {KwVyhod, <<"h","i">>, <<>>}

\* The parsed bodies response.json() yields; "invalid" stands for a body
\* that is not JSON (json() raises ValueError).
InvalidJson == [t |-> "invalid", v |-> <<>>]
Message(m) == Dict([k \in {"message"} |-> m])
Content(c) == Message(Dict([k \in {"content"} |-> c]))
Bodies ==
  {InvalidJson, List(<<>>), EmptyDict,
   Dict([k \in {"error"} |-> Str(<<"x">>)]),
   Message(EmptyDict), Message(Dict([k \in {"role"} |-> Str(<<"a">>)])),
   Message(None), Message(Str(<<"h","i">>)), Message(List(<<>>)),
   Content(None), Content(Num(<<"5">>)), Content(Num(<<"0">>))}
    \cup {Content(Str(r)) : r \in Replies}

\* What requests.post(...) does: raises, or returns a response with a
\* status code and a body.
StatusCodes == {200, 404, 500}
Responses ==
  {[exc |-> e, status_code |-> 0, json |-> InvalidJson] :
      e \in {"Timeout", "ConnectionError"}}
    \cup {[exc |-> "none", status_code |-> 200, json |-> b] : b \in Bodies}
    \cup {[exc |-> "none", status_code |-> c, json |-> b] :
            c \in StatusCodes \ {200},
            b \in {InvalidJson, Content(Str(KwExit)), Dict([k \in {"error"} |-> Str(<<"x">>)])}}

---------------------------------------------------------------------------
\* VoiceAgent.get_llm_response

\* Variant of llm_request: the status code is not looked at, the body is
\* parsed whatever the status.
llm_request_no_status(resp) ==
  IF resp.exc # "none"
    THEN [raised |-> resp.exc, ret |-> None, notice |-> "none"]
  ELSE IF resp.json.t = "invalid"
    THEN [raised |-> "ValueError", ret |-> None, notice |-> "none"]
  ELSE IF ~HasGet(resp.json)
    THEN [raised |-> "AttributeError", ret |-> None, notice |-> "none"]
  ELSE LET message == DictGet(resp.json, "message", EmptyDict) IN
    IF ~HasGet(message)
      THEN [raised |-> "AttributeError", ret |-> None, notice |-> "none"]
      ELSE [raised |-> "none",
            ret |-> DictGet(message, "content", Str(NoAnswer)),
            notice |-> "none"]

\* The body of its try block: the exception it raises ("none" when it
\* returns), the value returned and the notice printed.
llm_request(resp) ==
  IF resp.exc # "none"
    THEN [raised |-> resp.exc, ret |-> None, notice |-> "none"]
  ELSE IF resp.status_code # 200
    THEN [raised |-> "none", ret |-> None, notice |-> "api_status"]
  ELSE IF resp.json.t = "invalid"
    THEN [raised |-> "ValueError", ret |-> None, notice |-> "none"]
  ELSE IF ~HasGet(resp.json)
    THEN [raised |-> "AttributeError", ret |-> None, notice |-> "none"]
  ELSE LET message == DictGet(resp.json, "message", EmptyDict) IN
    IF ~HasGet(message)
      THEN [raised |-> "AttributeError", ret |-> None, notice |-> "none"]
      ELSE [raised |-> "none",
            ret |-> DictGet(message, "content", Str(NoAnswer)),
            notice |-> "none"]

\* Variant of get_llm_response: only the Timeout handler, every other
\* exception leaves the function.
get_llm_response_timeout_only(resp) ==
  LET body == llm_request(resp) IN
    IF body.raised = "Timeout"
      THEN [raised |-> "none", ret |-> None, notice |-> "llm_timeout"]
      ELSE body

\* The try block with its handlers: Timeout, then every other Exception.
get_llm_response(resp) ==
  LET body == llm_request(resp) IN
    IF body.raised = "none" THEN body
    ELSE IF body.raised = "Timeout"
      THEN [raised |-> "none", ret |-> None, notice |-> "llm_timeout"]
      ELSE [raised |-> "none", ret |-> None, notice |-> "llm_error"]

\* The exit test of main on the value process_voice_command returned:
\* "break", "continue", or the AttributeError of .lower() on a value that
\* is not a str.
ExitCheck(result) ==
  IF ~Truthy(result) THEN "continue"
  ELSE IF result.t # "str" THEN "AttributeError"
  ELSE IF \E word \in ExitWords : Contains(word, Lower(result.v)) THEN "break"
  ELSE "continue"

\* test_text_to_llm: the block it prints for a response.
test_text_to_llm(resp) ==
  IF resp.exc = "ConnectionError" THEN "conn_hint"
  ELSE IF resp.exc # "none" THEN "error"
  ELSE IF resp.status_code # 200 THEN "api_status_body"
  ELSE IF resp.json.t = "invalid" \/ ~HasGet(resp.json) THEN "error"
  ELSE IF ~HasGet(DictGet(resp.json, "message", EmptyDict)) THEN "error"
  ELSE "reply"

\* What requests.get(...) of the availability probe does.
ProbeOutcomes ==
  {[exc |-> "none", status_code |-> c] : c \in StatusCodes}
    \cup {[exc |-> e, status_code |-> 0] : e \in {"Timeout", "ConnectionError"}}

\* Variant of check_ollama_available: any response, whatever its status,
\* counts as available.
check_ollama_available_any_status(p) ==
  IF p.exc # "none" THEN FALSE ELSE TRUE

\* VoiceAgent._check_ollama_available
check_ollama_available(p) ==
  IF p.exc # "none" THEN FALSE ELSE p.status_code = 200

\* The literal queries of the diagnostic run.
TestQueries == <<"q1", "q2", "q3">>

---------------------------------------------------------------------------
\* Configuration and URLs

\* The defaults of os.getenv in __init__ and in test_text_to_llm:
\* "http://localhost:11434/api" and "llama3.2".
DefaultUrl == Str(<<"h","t","t","p",":","/","/","l","o","c","a","l","h","o","s","t",":","1","1","4","3","4","/","a","p","i">>)
DefaultModel == Str(<<"l","l","a","m","a","3",".","2">>)

\* Other base addresses and model names an argument or the environment
\* can hold: "http://gpu:11434/api", "http://api.lan/api",
\* "http://h/api/v1/api", "m1", "m2".
GpuUrl == Str(<<"h","t","t","p",":","/","/","g","p","u",":","1","1","4","3","4","/","a","p","i">>)
ApiLanUrl == Str(<<"h","t","t","p",":","/","/","a","p","i",".","l","a","n","/","a","p","i">>)
NestedUrl == Str(<<"h","t","t","p",":","/","/","h","/","a","p","i","/","v","1","/","a","p","i">>)
ArgUrls == {None, Str(<<>>), GpuUrl}
EnvUrls == {None, ApiLanUrl, NestedUrl}
ArgModels == {None, Str(<<>>), Str(<<"m","1">>)}
EnvModels == {None, Str(<<>>), Str(<<"m","2">>)}

\* os.getenv(name, default): the value of the variable when it is set
\* (None stands for a variable that is not set), else the default.
getenv(value, default) == IF value = None THEN default ELSE value

\* a or b
PyOr(a, b) == IF Truthy(a) THEN a ELSE b

\* The two assignments of __init__ (and of test_text_to_llm).
init_config(a, e) ==
  [ollama_url |-> PyOr(a.url, getenv(e.url, DefaultUrl)),
   model |-> PyOr(a.model, getenv(e.model, DefaultModel))]

\* s.replace(old, ""): every occurrence of old, from the left, is removed.
RECURSIVE Replace(_, _)
Replace(s, old) ==
  IF Len(s) < Len(old) THEN s
  ELSE IF SubSeq(s, 1, Len(old)) = old
    THEN Replace(SubSeq(s, Len(old) + 1, Len(s)), old)
    ELSE <<s[1]>> \o Replace(Tail(s), old)

SlashApi == <<"/","a","p","i">>
SlashApiTags == <<"/","a","p","i","/","t","a","g","s">>
SlashChat == <<"/","c","h","a","t">>

\* The URL of the availability probe.
probe_url(base) == Str(Replace(base.v, SlashApi) \o SlashApiTags)

\* The URL of the chat request.
chat_url(base) == Str(base.v \o SlashChat)

\* The request get_llm_response (and test_text_to_llm) sends.
NoRequest == [url |-> None, model |-> None, messages |-> <<>>, stream |-> FALSE]
chat_request(cfg, content) ==
  [url |-> chat_url(cfg.ollama_url),
   model |-> cfg.model,
   messages |-> <<[role |-> "user", content |-> content]>>,
   stream |-> FALSE]

---------------------------------------------------------------------------
\* State

VARIABLES
  mode,      \* "voice": voice_agent.main; "diag": test_agent.main
  pc,        \* where the program is
  probe,     \* what the availability probe did
  mic,       \* the microphone session is open (inside "with sr.Microphone()")
  text,      \* what listen() returned in the current cycle
  lastResp,  \* what requests.post did in the last chat call
  response,  \* what get_llm_response returned in the last chat call
  result,    \* main's variable result
  notice,    \* the error notice printed in the current cycle
  log,       \* the calls of the current cycle; in "diag", the queries sent
             \* and the blocks printed in the whole run
  nListen,   \* number of listen() calls so far
  exitMsg,   \* how the program ended
  exc,       \* the exception that ended main
  intAt,     \* where the program was when KeyboardInterrupt was raised
  qi,        \* "diag": number of queries taken from test_queries
  env,       \* OLLAMA_BASE_URL and OLLAMA_MODEL of the environment
  args,      \* the arguments ollama_url and model of the constructor
  agent,     \* self.ollama_url and self.model
  probeUrl,  \* the URL the availability probe was sent to
  request,   \* the last chat request sent
  calls      \* "api": the calls of get_llm_response made so far

vars == <<mode, pc, probe, mic, text, lastResp, response, result, notice,
          log, nListen, exitMsg, exc, intAt, qi, env, args, agent, probeUrl,
          request, calls>>

\* The variables of the chat call and of the end of the program; those
\* main never changes outside the interrupt and the for loop; those of
\* the agent object and its requests.
chatVars == <<lastResp, response>>
endVars == <<exitMsg, exc>>
fixedVars == <<mode, intAt, qi, env, args, calls>>
objVars == <<agent, probeUrl, request>>

NoProbe == [exc |-> "unsent", status_code |-> 0]
NoResponse == [exc |-> "unsent", status_code |-> 0, json |-> InvalidJson]
NoArgs == [url |-> None, model |-> None]
NoAgent == [ollama_url |-> None, model |-> None]

Init ==
  /\ mode \in {"voice", "diag"}
  /\ pc = "banner"
  /\ probe = NoProbe
  /\ mic = FALSE
  /\ text = None
  /\ lastResp = NoResponse
  /\ response = None
  /\ result = None
  /\ notice = "none"
  /\ log = <<>>
  /\ nListen = 0
  /\ exitMsg = "none"
  /\ exc = "none"
  /\ intAt = "none"
  /\ qi = 0
  /\ env = NoArgs
  /\ args = NoArgs
  /\ agent = NoAgent
  /\ probeUrl = None
  /\ request = NoRequest
  /\ calls = <<>>

---------------------------------------------------------------------------
\* voice_agent.main

\* An exception reaches main's "except Exception": it is reported and
\* main returns.
Raise(e) ==
  /\ pc' = "terminated"
  /\ exitMsg' = "error"
  /\ exc' = e

\* The banner is printed; the try block is entered and VoiceAgent() sends
\* the availability probe.
Banner ==
  /\ mode = "voice" /\ pc = "banner"
  /\ pc' = "probe"
  /\ agent' = init_config(args, env)
  /\ probeUrl' = probe_url(agent'.ollama_url)
  /\ UNCHANGED <<probe, mic, text, chatVars, result, notice, log, nListen,
                 endVars, fixedVars, request>>

\* The probe returns.  A negative probe makes __init__ raise
\* ConnectionError.
ProbeReturn ==
  /\ mode = "voice" /\ pc = "probe"
  /\ \E p \in ProbeOutcomes :
       /\ probe' = p
       /\ IF check_ollama_available(p)
            THEN /\ pc' = "idle"
                 /\ UNCHANGED endVars
            ELSE Raise("ConnectionError")
  /\ UNCHANGED <<mic, text, chatVars, result, notice, log, nListen, fixedVars, objVars>>

\* Variant of ReturnNone: a cycle without a reply goes back to the head of
\* the loop without calling input().
ReturnNoneNoPrompt ==
  /\ result' = None
  /\ pc' = "idle"
  /\ log' = log

\* process_voice_command returned None: the exit test of main is false
\* and input() is called.
ReturnNone ==
  /\ result' = None
  /\ pc' = "prompt"
  /\ log' = Append(log, "prompt")

\* process_voice_command calls listen(): the microphone is opened and
\* calibrated, or opening it raises.
ListenOpen ==
  /\ mode = "voice" /\ pc = "idle"
  /\ nListen < MaxCycles
  /\ nListen' = nListen + 1
  /\ log' = <<"listen">>
  /\ text' = None
  /\ notice' = "none"
  /\ \E opened \in BOOLEAN :
       IF opened
         THEN /\ mic' = TRUE
              /\ pc' = "listening"
              /\ UNCHANGED endVars
         ELSE /\ mic' = FALSE
              /\ Raise("OSError")
  /\ UNCHANGED <<probe, chatVars, result, fixedVars, objVars>>

\* Variant of Capture: the microphone is opened and closed by hand and the
\* WaitTimeoutError handler returns without closing it.
CaptureKeepsMic ==
  /\ mode = "voice" /\ pc = "listening"
  /\ log' = Append(log, "capture")
  /\ \E heard \in BOOLEAN :
       IF heard
         THEN /\ pc' = "transcribing"
              /\ UNCHANGED <<mic, text, notice>>
         ELSE /\ mic' = mic
              /\ text' = None
              /\ notice' = "listen_timeout"
              /\ pc' = "listened"
  /\ UNCHANGED <<probe, chatVars, result, nListen, endVars, fixedVars, objVars>>

\* recognizer.listen returns the audio or raises WaitTimeoutError, which
\* listen() turns into None.
Capture ==
  /\ mode = "voice" /\ pc = "listening"
  /\ log' = Append(log, "capture")
  /\ \E heard \in BOOLEAN :
       IF heard
         THEN /\ pc' = "transcribing"
              /\ UNCHANGED <<mic, text, notice>>
         ELSE /\ mic' = FALSE
              /\ text' = None
              /\ notice' = "listen_timeout"
              /\ pc' = "listened"
  /\ UNCHANGED <<probe, chatVars, result, nListen, endVars, fixedVars, objVars>>

\* What recognize_google does: returns a text or raises.
RecognizeOutcomes ==
  {[exc |-> "none", text |-> u] : u \in Utterances}
    \cup {[exc |-> e, text |-> <<>>] :
            e \in {"UnknownValueError", "RequestError", "OtherError"}}

\* Variant of Recognize: after unrecognizable audio listen() captures
\* again instead of returning None.
RecognizeRetry ==
  /\ mode = "voice" /\ pc = "transcribing"
  /\ log' = Append(log, "recognize")
  /\ \E r \in RecognizeOutcomes :
       CASE r.exc = "none" ->
              /\ text' = Str(r.text)
              /\ mic' = FALSE
              /\ pc' = "listened"
              /\ UNCHANGED <<notice, endVars>>
         [] r.exc = "UnknownValueError" ->
              /\ text' = None
              /\ mic' = TRUE
              /\ notice' = "unrecognized"
              /\ pc' = "listening"
              /\ UNCHANGED endVars
         [] r.exc = "RequestError" ->
              /\ text' = None
              /\ mic' = FALSE
              /\ notice' = "recognition_error"
              /\ pc' = "listened"
              /\ UNCHANGED endVars
         [] OTHER ->
              /\ text' = None
              /\ mic' = FALSE
              /\ Raise(r.exc)
              /\ UNCHANGED notice
  /\ UNCHANGED <<probe, chatVars, result, nListen, fixedVars, objVars>>

\* listen() returns the text, turns UnknownValueError and RequestError
\* into None, and lets any other exception through; the microphone is
\* closed on every way out.
Recognize ==
  /\ mode = "voice" /\ pc = "transcribing"
  /\ mic' = FALSE
  /\ log' = Append(log, "recognize")
  /\ \E r \in RecognizeOutcomes :
       CASE r.exc = "none" ->
              /\ text' = Str(r.text)
              /\ pc' = "listened"
              /\ UNCHANGED <<notice, endVars>>
         [] r.exc = "UnknownValueError" ->
              /\ text' = None
              /\ notice' = "unrecognized"
              /\ pc' = "listened"
              /\ UNCHANGED endVars
         [] r.exc = "RequestError" ->
              /\ text' = None
              /\ notice' = "recognition_error"
              /\ pc' = "listened"
              /\ UNCHANGED endVars
         [] OTHER ->
              /\ text' = None
              /\ Raise(r.exc)
              /\ UNCHANGED notice
  /\ UNCHANGED <<probe, chatVars, result, nListen, fixedVars, objVars>>

\* Variant of process_voice_command: no test of the text, the chat request
\* is sent with whatever listen() returned.
process_voice_command_unchecked ==
  /\ mode = "voice" /\ pc = "listened"
  /\ pc' = "querying"
  /\ log' = Append(log, "chat")
  /\ request' = chat_request(agent, text)
  /\ UNCHANGED <<probe, mic, text, chatVars, result, notice, nListen, endVars,
                 fixedVars, agent, probeUrl>>

\* Variant of process_voice_command: with no text it listens again, in
\* the same cycle, until a text is there.
process_voice_command_relisten ==
  /\ mode = "voice" /\ pc = "listened"
  /\ IF text = None
       THEN /\ pc' = "listening"
            /\ mic' = TRUE
            /\ log' = <<"listen">>
            /\ UNCHANGED request
       ELSE /\ pc' = "querying"
            /\ mic' = mic
            /\ log' = Append(log, "chat")
            /\ request' = chat_request(agent, text)
  /\ UNCHANGED <<probe, text, chatVars, result, notice, nListen, endVars,
                 fixedVars, agent, probeUrl>>

\* process_voice_command after listen(): None is returned for no text,
\* else get_llm_response sends the chat request.
process_voice_command ==
  /\ mode = "voice" /\ pc = "listened"
  /\ IF text = None
       THEN /\ ReturnNone
            /\ UNCHANGED request
       ELSE /\ pc' = "querying"
            /\ log' = Append(log, "chat")
            /\ request' = chat_request(agent, text)
            /\ UNCHANGED result
  /\ UNCHANGED <<probe, mic, text, chatVars, notice, nListen, endVars, fixedVars,
                 agent, probeUrl>>

\* requests.post returns or raises; get_llm_response yields the reply,
\* process_voice_command prints and returns it when it is true.
LlmReturn ==
  /\ mode = "voice" /\ pc = "querying"
  /\ \E resp \in Responses :
       LET r == get_llm_response(resp) IN
         /\ lastResp' = resp
         /\ response' = r.ret
         /\ notice' = r.notice
         /\ IF r.raised # "none"
              THEN /\ Raise(r.raised)
                   /\ UNCHANGED <<result, log>>
              ELSE /\ UNCHANGED endVars
                   /\ IF Truthy(r.ret)
                        THEN /\ result' = r.ret
                             /\ pc' = "presenting"
                             /\ log' = Append(log, "print")
                        ELSE ReturnNone
  /\ UNCHANGED <<probe, mic, text, nListen, fixedVars, objVars>>

\* Variant of Check: input() is called before the exit test, whatever the
\* reply holds.
CheckAfterPrompt ==
  /\ mode = "voice" /\ pc = "presenting"
  /\ pc' = "prompt"
  /\ log' = log \o <<"prompt", "check">>
  /\ UNCHANGED <<probe, mic, text, chatVars, result, notice, nListen, endVars,
                 fixedVars, objVars>>

\* The exit test of main on a printed reply.
Check ==
  /\ mode = "voice" /\ pc = "presenting"
  /\ LET c == ExitCheck(result) IN
       CASE c = "break" ->
              /\ pc' = "terminated"
              /\ exitMsg' = "goodbye"
              /\ log' = Append(log, "check")
              /\ UNCHANGED exc
         [] c = "AttributeError" ->
              /\ Raise("AttributeError")
              /\ log' = Append(log, "check")
         [] OTHER ->
              /\ pc' = "prompt"
              /\ log' = log \o <<"check", "prompt">>
              /\ UNCHANGED endVars
  /\ UNCHANGED <<probe, mic, text, chatVars, result, notice, nListen, fixedVars, objVars>>

\* input() returns on Enter, or raises EOFError when the input is closed.
Prompt ==
  /\ mode = "voice" /\ pc = "prompt"
  /\ \E entered \in BOOLEAN :
       IF entered
         THEN /\ pc' = "idle"
              /\ UNCHANGED endVars
         ELSE Raise("EOFError")
  /\ UNCHANGED <<probe, mic, text, chatVars, result, notice, log, nListen,
                 fixedVars, objVars>>

---------------------------------------------------------------------------
\* test_agent.main

DiagBanner ==
  /\ mode = "diag" /\ pc = "banner"
  /\ pc' = "d_loop"
  /\ UNCHANGED <<probe, mic, text, chatVars, result, notice, log, nListen,
                 endVars, fixedVars, objVars>>

\* The for loop takes the next query and test_text_to_llm sends it, or
\* the list is exhausted and main returns.
DiagNext ==
  /\ mode = "diag" /\ pc = "d_loop"
  /\ IF qi < Len(TestQueries)
       THEN /\ qi' = qi + 1
            /\ pc' = "d_call"
            /\ log' = Append(log, TestQueries[qi + 1])
            /\ request' = chat_request(init_config(args, env),
                                       Str(<<TestQueries[qi + 1]>>))
       ELSE /\ pc' = "terminated"
            /\ UNCHANGED <<qi, log, request>>
  /\ UNCHANGED <<mode, intAt, env, args, calls, probe, mic, text, chatVars,
                 result, notice, nListen, endVars, agent, probeUrl>>

\* Variant of DiagReturn: test_text_to_llm handles ConnectionError only,
\* any other exception of the request leaves it and ends test_agent.main.
DiagReturnUncaught ==
  /\ mode = "diag" /\ pc = "d_call"
  /\ \E resp \in Responses :
       /\ lastResp' = resp
       /\ notice' = test_text_to_llm(resp)
       /\ IF resp.exc = "Timeout"
            THEN /\ pc' = "terminated"
                 /\ log' = log
            ELSE /\ pc' = "d_loop"
                 /\ log' = Append(log, test_text_to_llm(resp))
  /\ UNCHANGED <<probe, mic, text, response, result, nListen, endVars, fixedVars, objVars>>

\* requests.post returns or raises; test_text_to_llm prints its block and
\* returns to the for loop.
DiagReturn ==
  /\ mode = "diag" /\ pc = "d_call"
  /\ \E resp \in Responses :
       /\ lastResp' = resp
       /\ notice' = test_text_to_llm(resp)
       /\ log' = Append(log, test_text_to_llm(resp))
  /\ pc' = "d_loop"
  /\ UNCHANGED <<probe, mic, text, response, result, nListen, endVars, fixedVars, objVars>>

---------------------------------------------------------------------------
\* KeyboardInterrupt.  voice_agent.main catches it inside its try block
\* and prints the farewell; before the try block, and everywhere in
\* test_agent, nothing catches it.  Leaving listen() closes the microphone.
InTry == mode = "voice" /\ pc # "banner"

\* Variant of Interrupt: a handler of get_llm_response that catches every
\* exception swallows an interrupt of the chat call, and the loop goes on.
InterruptCaughtInLlm ==
  /\ pc # "terminated"
  /\ intAt' = pc
  /\ mic' = FALSE
  /\ IF pc = "querying"
       THEN /\ ReturnNone
            /\ UNCHANGED endVars
       ELSE /\ exc' = "KeyboardInterrupt"
            /\ pc' = "terminated"
            /\ exitMsg' = IF InTry THEN "finished" ELSE "traceback"
            /\ UNCHANGED <<result, log>>
  /\ UNCHANGED <<mode, qi, env, args, calls, probe, text, chatVars, notice,
                 nListen, objVars>>

Interrupt ==
  /\ pc # "terminated"
  /\ intAt' = pc
  /\ exc' = "KeyboardInterrupt"
  /\ pc' = "terminated"
  /\ mic' = FALSE
  /\ exitMsg' = IF InTry THEN "finished" ELSE "traceback"
  /\ UNCHANGED <<mode, qi, env, args, calls, probe, text, chatVars, result,
                 notice, log, nListen, objVars>>

Next ==
  \/ Banner \/ ProbeReturn \/ ListenOpen \/ Capture \/ Recognize
  \/ process_voice_command \/ LlmReturn \/ Check \/ Prompt
  \/ DiagBanner \/ DiagNext \/ DiagReturn
  \/ Interrupt

Spec == Init /\ [][Next]_vars

\* The stages of a cycle end: the capture within its timeout and phrase
\* limit, the recognition, the chat call within its timeout; the steps of
\* the program between them are taken.  Nothing is assumed of input().
FairSpec ==
  /\ Spec
  /\ WF_vars(Capture) /\ WF_vars(Recognize) /\ WF_vars(process_voice_command)
  /\ WF_vars(LlmReturn) /\ WF_vars(Check)

---------------------------------------------------------------------------
\* VoiceAgent used as an object: VoiceAgent(ollama_url, model) with any
\* arguments in any environment, then calls of get_llm_response.

MaxCalls == 2

\* The responses of the endpoint to these calls.
ApiResponses ==
  {r \in Responses :
     \/ r.exc = "Timeout"
     \/ r.status_code = 500 /\ r.json.t = "invalid"
     \/ r.status_code = 200
          /\ r.json \in {Content(Str(<<"4">>)), Content(Str(KwExit)), Message(None)}}

InitApi ==
  /\ mode = "api"
  /\ pc = "a_new"
  /\ probe = NoProbe
  /\ mic = FALSE
  /\ text = None
  /\ lastResp = NoResponse
  /\ response = None
  /\ result = None
  /\ notice = "none"
  /\ log = <<>>
  /\ nListen = 0
  /\ exitMsg = "none"
  /\ exc = "none"
  /\ intAt = "none"
  /\ qi = 0
  /\ env \in [url : EnvUrls, model : EnvModels]
  /\ args \in [url : ArgUrls, model : ArgModels]
  /\ agent = NoAgent
  /\ probeUrl = None
  /\ request = NoRequest
  /\ calls = <<>>

\* __init__: the configuration is resolved, the probe is sent, and a
\* negative probe raises ConnectionError to the caller.
Construct ==
  /\ mode = "api" /\ pc = "a_new"
  /\ agent' = init_config(args, env)
  /\ probeUrl' = probe_url(agent'.ollama_url)
  /\ \E p \in ProbeOutcomes :
       /\ probe' = p
       /\ IF check_ollama_available(p)
            THEN /\ pc' = "a_ready"
                 /\ UNCHANGED endVars
            ELSE /\ pc' = "terminated"
                 /\ exc' = "ConnectionError"
                 /\ exitMsg' = "traceback"
  /\ UNCHANGED <<mic, text, chatVars, result, notice, log, nListen, fixedVars,
                 request>>

\* Variant of Call: the agent keeps the conversation and sends the
\* messages of the earlier calls along with the new one.
CallWithHistory ==
  /\ mode = "api" /\ pc = "a_ready"
  /\ Len(calls) < MaxCalls
  /\ \E t \in Utterances, resp \in ApiResponses :
       LET req == [chat_request(agent, Str(t)) EXCEPT
                     !.messages = request.messages \o @]
           r == get_llm_response(resp)
       IN /\ request' = req
          /\ lastResp' = resp
          /\ response' = r.ret
          /\ notice' = r.notice
          /\ calls' = Append(calls, [text |-> Str(t), request |-> req,
                                     resp |-> resp, ret |-> r.ret])
  /\ UNCHANGED <<mode, intAt, qi, env, args, pc, probe, mic, text, result, log,
                 nListen, endVars, agent, probeUrl>>

\* get_llm_response(text): the request is sent, the endpoint answers, the
\* reply or None is returned.
Call ==
  /\ mode = "api" /\ pc = "a_ready"
  /\ Len(calls) < MaxCalls
  /\ \E t \in Utterances, resp \in ApiResponses :
       LET req == chat_request(agent, Str(t))
           r == get_llm_response(resp)
       IN /\ request' = req
          /\ lastResp' = resp
          /\ response' = r.ret
          /\ notice' = r.notice
          /\ calls' = Append(calls, [text |-> Str(t), request |-> req,
                                     resp |-> resp, ret |-> r.ret])
  /\ UNCHANGED <<mode, intAt, qi, env, args, pc, probe, mic, text, result, log,
                 nListen, endVars, agent, probeUrl>>

NextApi == Construct \/ Call

ApiSpec == InitApi /\ [][NextApi]_vars

---------------------------------------------------------------------------
\* Properties of the voice loop

InLog(e) == \E i \in DOMAIN log : log[i] = e
Count(e) == Cardinality({i \in DOMAIN log : log[i] = e})

\* The loop is back at its head after a cycle.
CycleDone == mode = "voice" /\ pc = "idle" /\ nListen > 0

\* The logs of a cycle that ended with no reply and went straight on.
NoReplyLogs ==
  {<<"listen", "capture">>, <<"listen", "capture", "recognize">>,
   <<"listen", "capture", "recognize", "chat">>}

\* C1 as claimed: after a cycle in which process_voice_command returned
\* None (no text, or no reply) the loop is back at listen without the
\* confirmation prompt having been executed.
C1_NoPromptAfterNoReply ==
  (CycleDone /\ result = None) => ~InLog("prompt")

\* C1 as amended: after a cycle in which process_voice_command returned
\* None, nothing was printed as a reply and no exit test matched, and the
\* confirmation prompt was executed exactly once, as the last call of the
\* cycle, before the loop is back at listen.
C1_PromptAfterNoReply ==
  /\ (CycleDone /\ result = None) =>
       /\ Count("prompt") = 1
       /\ log[Len(log)] = "prompt"
       /\ SubSeq(log, 1, Len(log) - 1) \in NoReplyLogs
  /\ (mode = "voice" /\ pc = "prompt" /\ ~InLog("print")) => result = None

C1_Witness ==
  /\ CycleDone /\ result = None
  /\ log = <<"listen", "capture", "recognize", "chat", "prompt">>
  /\ lastResp.exc = "Timeout"

ReplyLog == <<"listen", "capture", "recognize", "chat", "print">>

\* C2: a cycle with a reply prints the reply, then runs the exit test; on
\* a keyword the loop ends with no prompt and nothing after the test; with
\* no keyword the prompt is executed exactly once, after the test, before
\* the loop is back at listen.  Nothing happens once the loop has ended.
C2_ReplyThenCheckThenPrompt ==
  /\ [](mode = "voice" =>
         /\ pc = "presenting" => log = ReplyLog /\ Truthy(result)
         /\ InLog("check") => SubSeq(log, 1, Len(ReplyLog) + 1) = ReplyLog \o <<"check">>
         /\ exitMsg = "goodbye" =>
              pc = "terminated" /\ log = ReplyLog \o <<"check">>
         /\ (CycleDone /\ result # None) =>
              /\ log = ReplyLog \o <<"check", "prompt">>
              /\ exitMsg = "none")
  /\ [][pc = "terminated" => UNCHANGED vars]_vars

C2_Witness ==
  /\ mode = "voice" /\ pc = "terminated" /\ exitMsg = "goodbye"
  /\ result = Str(<<"E", "x", "i", "t", "a">>)
  /\ ~InLog("prompt")

\* C3: in a cycle a chat request is sent only after listen() has returned
\* a text in that cycle; a cycle whose listen() returned None ends without
\* one.
C3_NoChatWithoutText ==
  mode = "voice" =>
    /\ InLog("chat") =>
         /\ text # None /\ text.t = "str"
         /\ SubSeq(log, 1, 4) = <<"listen", "capture", "recognize", "chat">>
    /\ (text = None /\ pc \in {"prompt", "idle"}) => ~InLog("chat")
    /\ pc = "querying" => text # None

C3_Witness ==
  /\ mode = "voice" /\ pc = "prompt" /\ text = None
  /\ notice = "unrecognized" /\ ~InLog("chat")

\* C4: a negative availability probe (a status other than 200, or a failed
\* request) makes the construction raise ConnectionError, and main ends
\* with no listen call, no open microphone, no chat request and no prompt.
C4_NegativeProbeEndsSession ==
  (probe.exc # "unsent" /\ (probe.exc # "none" \/ probe.status_code # 200)) =>
    /\ pc = "terminated" /\ exitMsg = "error" /\ exc = "ConnectionError"
    /\ nListen = 0 /\ log = <<>> /\ ~mic
    /\ lastResp = NoResponse

C4_Witness ==
  /\ probe.exc = "none" /\ probe.status_code = 404
  /\ pc = "terminated" /\ exc = "ConnectionError" /\ nListen = 0

ListenNotices == {"listen_timeout", "unrecognized", "recognition_error"}
LlmNotices == {"llm_timeout", "llm_error", "api_status"}
ChatReturned == InLog("chat") /\ pc # "querying" /\ intAt # "querying"
ChatFailed ==
  /\ ChatReturned
  /\ \/ lastResp.exc \in {"Timeout", "ConnectionError"}
     \/ lastResp.exc = "none" /\ lastResp.status_code # 200

\* C5: an error of the listen stage (wait timeout, unrecognizable audio,
\* recognition service error) or of the chat call (timeout, connection
\* error, status other than 200) becomes a None result inside listen /
\* get_llm_response; no exception of it reaches main, the loop goes on to
\* the prompt and the head of the loop, and only an interrupt or a closed
\* input ends it from there.
C5_ErrorsBecomeNone ==
  mode = "voice" =>
    /\ notice \in ListenNotices =>
         /\ text = None
         /\ pc \in {"prompt", "idle"} => result = None
    /\ ChatFailed =>
         /\ response = None /\ result = None
         /\ notice \in LlmNotices
    /\ (notice \in ListenNotices \/ ChatFailed) =>
         /\ pc \in {"listened", "prompt", "idle", "terminated"}
         /\ exc \in {"none", "KeyboardInterrupt", "EOFError"}
         /\ exitMsg \in {"none", "finished", "error"}
         /\ exitMsg = "error" => exc = "EOFError"

C5_Witness ==
  /\ mode = "voice" /\ pc = "idle" /\ nListen = 1
  /\ lastResp.exc = "ConnectionError" /\ notice = "llm_error"
  /\ result = None /\ exc = "none"

\* C6 as claimed: an interrupt during the probe, listening, transcribing,
\* the chat call, presenting or the prompt, in voice_agent and in
\* test_agent (whose states are its loop and its chat call), ends the
\* program with the farewell printed.
C6_FarewellOnEveryInterrupt ==
  intAt \in {"probe", "idle", "listening", "transcribing", "listened",
             "querying", "presenting", "prompt", "d_loop", "d_call"}
    => pc = "terminated" /\ exitMsg = "finished"

TryStates ==
  {"probe", "idle", "listening", "transcribing", "listened", "querying",
   "presenting", "prompt"}

\* C6 as amended: an interrupt inside the try block of voice_agent.main
\* (probe, head of the loop, listening, transcribing, chat call,
\* presenting, prompt) ends the program with the farewell printed and the
\* microphone closed; an interrupt in test_agent, or in voice_agent while
\* the banner is printed, ends the program with no farewell.  In every
\* case nothing happens after the interrupt.
C6_InterruptEndsProgram ==
  /\ [](intAt # "none" =>
         /\ pc = "terminated" /\ exc = "KeyboardInterrupt" /\ ~mic
         /\ (mode = "voice" /\ intAt \in TryStates) => exitMsg = "finished"
         /\ (mode = "diag" \/ intAt = "banner") => exitMsg = "traceback"
         /\ mode = "voice" => intAt \in TryStates \cup {"banner"}
         /\ mode = "diag" => intAt \in {"banner", "d_loop", "d_call"})
  /\ [][intAt # "none" => UNCHANGED vars]_vars

C6_Witness ==
  /\ mode = "voice" /\ intAt = "querying" /\ InLog("chat")
  /\ pc = "terminated" /\ exitMsg = "finished"

LacksContent(body) ==
  /\ body.t = "dict"
  /\ \/ "message" \notin DOMAIN body.v
     \/ body.v["message"].t # "dict"
     \/ "content" \notin DOMAIN body.v["message"].v

\* C7: for a 200 response whose body has no message key, a message
\* without content, or a message that is not an object, get_llm_response
\* returns the placeholder text.
C7_PlaceholderWithoutContent ==
  (/\ mode = "voice" /\ lastResp.exc = "none" /\ lastResp.status_code = 200
   /\ LacksContent(lastResp.json))
    => response = Str(NoAnswer)

HasTextContent(body) ==
  /\ body.t = "dict" /\ "message" \in DOMAIN body.v
  /\ body.v["message"].t = "dict"
  /\ "content" \in DOMAIN body.v["message"].v
  /\ body.v["message"].v["content"].t = "str"

\* C8: for a 200 response with message.content a text X get_llm_response
\* returns X; for a status other than 200 it returns None; in both cases
\* no exception leaves it (main is not ended by one).
C8_ReplyByStatus ==
  (mode = "voice" /\ lastResp.exc = "none") =>
    /\ (lastResp.status_code = 200 /\ HasTextContent(lastResp.json)) =>
         response = lastResp.json.v["message"].v["content"]
    /\ lastResp.status_code # 200 => response = None
    /\ (/\ ChatReturned
        /\ lastResp.status_code # 200 \/ HasTextContent(lastResp.json)) =>
         exc \in {"none", "KeyboardInterrupt", "EOFError"}

C8_Witness ==
  /\ mode = "voice" /\ pc = "presenting"
  /\ lastResp.status_code = 200
  /\ lastResp.json = Content(Str(<<"a", "4", "E">>))
  /\ response = Str(<<"a", "4", "E">>)

\* Two characters are the same letter, whatever the case.
SameLetter(a, b) == a = b \/ UpperChar(a) = b \/ a = UpperChar(b)
\* s holds word at some position, in any letter case.
ContainsAnyCase(word, s) ==
  \E i \in 0..(Len(s) - Len(word)) :
    \A j \in 1..Len(word) : SameLetter(s[i + j], word[j])

\* C9 as claimed: the loop ends on the keyword exactly when the reply
\* holds "exit", "quit", "stop" or a native exit word in any letter case.
C9_EndsOnClaimedWords ==
  (mode = "voice" /\ InLog("check") /\ result.t = "str") =>
    (exitMsg = "goodbye" <=>
       \E w \in {KwExit, KwQuit, LatinStop, KwVyhod, KwStopCyr} :
         ContainsAnyCase(w, result.v))

\* C9 as amended: the loop ends on the keyword exactly when the reply
\* holds, in any letter case and at any position, one of the four words
\* of the list: the two Cyrillic words and "exit", "quit".  Latin "stop"
\* is not one of them.
C9_EndsOnListedWords ==
  (mode = "voice" /\ InLog("check") /\ result.t = "str") =>
    /\ exitMsg = "goodbye" <=>
         \E w \in {<<"cy_v","cy_y","cy_h","cy_o","cy_d">>, <<"e","x","i","t">>,
                   <<"q","u","i","t">>, <<"cy_s","cy_t","cy_o","cy_p">>} :
           ContainsAnyCase(w, result.v)
    /\ exitMsg # "goodbye" => pc \in {"prompt", "idle", "terminated"}
    /\ (exitMsg # "goodbye" /\ pc = "terminated") =>
         exc \in {"KeyboardInterrupt", "EOFError"}

C9_Witness ==
  /\ mode = "voice" /\ pc = "terminated" /\ exitMsg = "goodbye"
  /\ result = Str(<<"a", "CY_V", "CY_Y", "CY_H", "CY_O", "CY_D", "E">>)

\* C10: a cycle in which listen() returned the exit word ends the loop,
\* whatever the chat call does: once that cycle is over the program is
\* terminated.
C10_ExitWordEndsLoop ==
  (mode = "voice" /\ text = Str(KwVyhod)
     /\ pc \notin {"listened", "querying", "presenting"})
    => pc = "terminated"

---------------------------------------------------------------------------
\* Properties of the diagnostic run, the microphone and the stages

BlockKinds == {"reply", "api_status_body", "conn_hint", "error"}

\* C11: test_agent sends the three queries in the order of the list, one
\* chat request each, and prints one block after each request, whatever
\* the requests do; it calls no input() and runs no exit test, and main
\* returns only after the block of the third query.
C11_ThreeQueriesThreeBlocks ==
  mode = "diag" =>
    /\ Len(log) <= 2 * Len(TestQueries)
    /\ \A i \in DOMAIN log :
         IF i % 2 = 1 THEN log[i] = TestQueries[(i + 1) \div 2]
                      ELSE log[i] \in BlockKinds
    /\ Len(log) = (IF pc = "d_call" \/ intAt = "d_call" THEN 2 * qi - 1 ELSE 2 * qi)
    /\ ~InLog("prompt") /\ ~InLog("check") /\ ~InLog("listen")
    /\ nListen = 0 /\ ~mic /\ result = None
    /\ (pc = "terminated" /\ intAt = "none") =>
         /\ qi = Len(TestQueries) /\ Len(log) = 2 * Len(TestQueries)
         /\ exitMsg = "none" /\ exc = "none"
    /\ (pc = "d_loop" /\ qi = Len(TestQueries)) => Len(log) = 2 * Len(TestQueries)

C11_Witness ==
  /\ mode = "diag" /\ pc = "terminated" /\ intAt = "none"
  /\ log = <<"q1", "error", "q2", "api_status_body", "q3", "conn_hint">>
  /\ lastResp.exc = "ConnectionError"

\* C12: the microphone is open only inside a listen() call (capturing or
\* transcribing) and is closed on every way out of it: it is never open
\* at the chat call, while presenting, at the prompt, at the head of the
\* loop or after the end; a listen() call opens it only when it is closed.
C12_MicOnlyInsideListen ==
  /\ [](/\ mic => mode = "voice" /\ pc \in {"listening", "transcribing"}
        /\ pc \in {"listening", "transcribing"} => mic
        /\ pc \in {"banner", "probe", "idle", "listened", "querying",
                   "presenting", "prompt", "terminated",
                   "d_loop", "d_call"} => ~mic)
  /\ [][(mic' /\ pc = "idle") => ~mic]_vars
  /\ [][(mic /\ mic') => (pc = "listening" /\ pc' = "transcribing")]_vars

C12_Witness ==
  /\ mode = "voice" /\ pc = "terminated" /\ ~mic
  /\ exc = "OtherError" /\ log = <<"listen", "capture", "recognize">>
  /\ nListen = 2

\* The place of a call in a cycle.
StageRank(e) ==
  CASE e = "listen" -> 1 [] e = "capture" -> 2 [] e = "recognize" -> 3
    [] e = "chat" -> 4 [] e = "print" -> 5 [] e = "check" -> 6
    [] e = "prompt" -> 7

\* C16: a cycle holds at most one capture, one recognition and one chat
\* request, in that order, and yields at most one text and one printed
\* reply, whatever the stages do: no stage runs twice in a cycle and none
\* runs before an earlier one.
C16_NoStageTwice ==
  mode = "voice" =>
    /\ \A i, j \in DOMAIN log : i < j => StageRank(log[i]) < StageRank(log[j])
    /\ Count("capture") <= 1 /\ Count("recognize") <= 1 /\ Count("chat") <= 1
    /\ Count("print") <= 1
    /\ InLog("recognize") => InLog("capture")
    /\ InLog("chat") => InLog("recognize")
    /\ InLog("print") => InLog("chat")
    /\ log # <<>> => log[1] = "listen"

C16_Witness ==
  /\ mode = "voice" /\ pc = "idle" /\ nListen = 2
  /\ notice = "unrecognized"
  /\ log = <<"listen", "capture", "recognize", "prompt">>

C14_NoticePerFailureClass ==
  /\ (mode = "voice" /\ ChatReturned) =>
       /\ (lastResp.exc = "none" /\ lastResp.status_code # 200) =>
            response = None /\ notice = "api_status"
       /\ lastResp.exc = "Timeout" =>
            response = None /\ notice = "llm_timeout"
       /\ lastResp.exc = "ConnectionError" =>
            response = None /\ notice = "conn_hint"
  /\ (mode = "diag" /\ lastResp.exc # "unsent") =>
       /\ (lastResp.exc = "none" /\ lastResp.status_code # 200) =>
            notice = "api_status_body"
       /\ lastResp.exc = "Timeout" => notice = "llm_timeout"
       /\ lastResp.exc = "ConnectionError" => notice = "conn_hint"

\* Inside a cycle; at the head of the loop (the next listen call) or ended.
InCycle ==
  mode = "voice" /\ pc \in {"listening", "transcribing", "listened",
                            "querying", "presenting", "prompt"}
AtHeadOrEnd == pc \in {"idle", "terminated"}

---------------------------------------------------------------------------
\* Properties of the configuration and of the requests

\* The first of: the override when one is provided, the environment value
\* when it is set, the default.
FirstProvided(override, value, default) ==
  IF override # None THEN override
  ELSE IF value # None THEN value
  ELSE default

\* C13 as claimed: for every override (absent, or any string, the empty
\* string included) and every environment value (unset or any string), the
\* resolved base address and the resolved model each equal the override
\* when one is provided, else the environment value when it is set, else
\* the default.
C13_OverrideThenEnvThenDefault ==
  (mode = "api" /\ pc # "a_new") =>
    /\ agent.ollama_url = FirstProvided(args.url, env.url, DefaultUrl)
    /\ agent.model = FirstProvided(args.model, env.model, DefaultModel)

\* s without its trailing suffix, when it ends with it.
StripSuffix(s, suffix) ==
  IF Len(s) >= Len(suffix) /\ SubSeq(s, Len(s) - Len(suffix) + 1, Len(s)) = suffix
    THEN SubSeq(s, 1, Len(s) - Len(suffix))
    ELSE s

\* s up to its last "/": the URL without its final path segment.
UpToLastSlash(s) ==
  LET slashes == {i \in DOMAIN s : s[i] = "/"} IN
    IF slashes = {} THEN <<>>
    ELSE SubSeq(s, 1, CHOOSE i \in slashes : \A j \in slashes : j <= i)

\* C19 as claimed: for every configured base address the probe URL is the
\* base address without its trailing "/api", followed by "/api/tags", and
\* differs from the chat URL (base + "/chat") in the final path segment
\* only.
C19_ProbeUrlOfSameService ==
  probeUrl # None =>
    /\ probeUrl.v = StripSuffix(agent.ollama_url.v, SlashApi) \o SlashApiTags
    /\ UpToLastSlash(probeUrl.v) = UpToLastSlash(agent.ollama_url.v \o SlashChat)

\* C15: every request get_llm_response sends holds the resolved model, one
\* message with role "user" whose content is the text of this call, and
\* stream = false; two calls with the same text send the same request and,
\* when the endpoint answers the same, return the same.
C15_RequestOfThisCallOnly ==
  \A i \in DOMAIN calls :
    /\ calls[i].request.model = agent.model
    /\ calls[i].request.messages = <<[role |-> "user", content |-> calls[i].text]>>
    /\ calls[i].request.stream = FALSE
    /\ \A j \in DOMAIN calls :
         calls[j].text = calls[i].text =>
           /\ calls[j].request = calls[i].request
           /\ calls[j].resp = calls[i].resp => calls[j].ret = calls[i].ret

C15_Witness ==
  /\ Len(calls) = 2
  /\ calls[1].text = calls[2].text
  /\ calls[1].resp = calls[2].resp
  /\ calls[1].ret = Str(KwExit)
  /\ request = calls[2].request

====
